---- MODULE Spec2Model ----
(***************************************************************************)
(* A model of clewdr's request orchestration (src/lib/completion.rs):      *)
(*   - AppState::try_completion, the completion handler, as a state         *)
(*     machine whose steps are the code segments between two awaits;        *)
(*   - the retry/renewal decision computed inside try_completion;           *)
(*   - stream_example, the channel-decoupled streaming handler, next to     *)
(*     the direct Body::from_stream hand-over that try_completion uses.     *)
(* Option<T> is modelled as a sequence: None == <<>>, Some(x) == <<x>>.     *)
(***************************************************************************)
EXTENDS Integers, Sequences, FiniteSets

\* ------------------------------------------------------------------ bounds
\* Longest message list enumerated for the decision function.
MaxLen == 2
\* Number of requests started on one AppState in one behaviour.
MaxRequests == 2
\* Number of items the upstream (backend) stream yields beyond the channel
\* capacity before it may end.
ExtraItems == 3
\* Longest prompt, in pieces (stretches of text and markers), enumerated for
\* the stop list.
MaxPieces == 4
\* Longest message list enumerated for merge_messages.
MaxMsgs == 3
\* Number of tokens a pad file may hold beyond the required minimum.
PadSpare == 1
\* Longest raw cookie input, in pieces, enumerated for Cookie::from.
MaxParts == 3

\* --------------------------------------------------------- program constants
\* mpsc::channel::<Result<Bytes, axum::Error>>(32)
ChannelCapacity == 32
\* assert!(tokens.len() >= 4096, ..) and if tokens.len() < 4096 { panic!(..) }
MinPadTokens == 4096
\* if pushed > 4000 { break; }
PadTarget == 4000
\* rng.random_range(8..64)
SliceMin == 8
SliceMax == 64
\* The repetition counts of the pattern of Cookie::validate: {86} and {6}
BodyLen == 86
TailLen == 6

\* ------------------------------------------------------------------ options
None == <<>>
Some(x) == <<x>>
IsSome(o) == o # <<>>
Unwrap(o) == o[1]

\* ----------------------------------------------------------------- messages
\* struct Message: role, content and nine optional directive flags.  The nine
\* Option fields are carried as one field, flags (0: all of them None).
Roles == {"user", "system", "assistant"}
NewChat == "[Start a new chat]"
\* The content of utils::TEST_MESSAGE and a content that starts with the
\* benchmarking prompt prefix of line 232.
TestContent == "<TEST_MESSAGE>"
BenchContent == "From the list below, choose a word ... : happy"

Message(r, c) == [role |-> r, content |-> c, flags |-> 0]

\* utils::TEST_MESSAGE, the recognized probe message.
TEST_MESSAGE == Message("user", TestContent)

\* The messages the decision function is enumerated over.
Messages ==
    { Message("user", "Hi"), Message("user", "Yo"),
      Message("assistant", "Hi"),
      Message("system", "Hi"), Message("system", NewChat) }

\* All message lists of length 0..n over S.
RECURSIVE ListsUpTo(_, _)
ListsUpTo(S, n) ==
    IF n = 0 THEN { <<>> }
    ELSE LET shorter == ListsUpTo(S, n - 1)
         IN  shorter \cup { Append(l, m) : l \in { x \in shorter : Len(x) = n - 1 }, m \in S }

\* Byte order of the strings that occur (str::cmp compares bytes).
StrRank(s) ==
    CASE s = TestContent -> 1
      [] s = BenchContent -> 2
      [] s = "Hi" -> 3
      [] s = "Yo" -> 4
      [] s = NewChat -> 5
      [] s = "assistant" -> 6
      [] s = "system" -> 7
      [] s = "user" -> 8
      [] OTHER -> 0

\* #[derive(PartialOrd, Ord)] on Message: lexicographic in field order.
MsgLess(a, b) ==
    \/ StrRank(a.role) < StrRank(b.role)
    \/ a.role = b.role /\ StrRank(a.content) < StrRank(b.content)
    \/ a.role = b.role /\ a.content = b.content /\ a.flags < b.flags

\* Vec::sort (stable): insertion into the sorted prefix, after equal elements.
RECURSIVE InsertSorted(_, _)
InsertSorted(m, s) ==
    IF s = <<>> THEN <<m>>
    ELSE IF MsgLess(m, Head(s)) THEN <<m>> \o s
         ELSE <<Head(s)>> \o InsertSorted(m, Tail(s))

RECURSIVE SortMessages(_)
SortMessages(s) ==
    IF s = <<>> THEN <<>>
    ELSE InsertSorted(s[Len(s)], SortMessages(SubSeq(s, 1, Len(s) - 1)))

\* .iter().filter(|m| m.role != "system")
NonSystem(s) == SelectSeq(s, LAMBDA m : m.role # "system")

\* A faulty variant of SamePrompts: the two filtered lists compared without sorting.
SamePromptsUnsorted(cur, prev) == NonSystem(cur) = NonSystem(prev)

\* let same_prompts = { a.sort(); b.sort(); a == b }
SamePrompts(cur, prev) ==
    SortMessages(NonSystem(cur)) = SortMessages(NonSystem(prev))

\* .iter().find(..): the first element of s that lies in the set hit.
FindFirst(s, hit) ==
    LET at == { i \in 1..Len(s) : s[i] \in hit }
    IN  IF at = {} THEN None
        ELSE Some(s[CHOOSE i \in at : \A j \in at : i <= j])

\* .iter().rfind(..): the last element of s that lies in the set hit.
FindLast(s, hit) ==
    LET at == { i \in 1..Len(s) : s[i] \in hit }
    IN  IF at = {} THEN None
        ELSE Some(s[CHOOSE i \in at : \A j \in at : i >= j])

Elems(s) == { s[i] : i \in 1..Len(s) }

\* PromptsGroup::find
PromptsGroupFind(messages) ==
    LET users      == { m \in Elems(messages) : m.role = "user" }
        assistants == { m \in Elems(messages) : m.role = "assistant" }
        systems    == { m \in Elems(messages) :
                          m.role = "system" /\ m.content # NewChat }
    IN  [ first_user      |-> FindFirst(messages, users),
          first_system    |-> FindFirst(messages, systems),
          first_assistant |-> FindFirst(messages, assistants),
          last_user       |-> FindLast(messages, users),
          last_system     |-> FindLast(messages, systems),
          last_assistant  |-> FindLast(messages, assistants) ]

\* Option::map(|s| s.content)
MapContent(o) == IF IsSome(o) THEN Some(Unwrap(o).content) ELSE None

\* let same_char_diff_chat = ...
SameCharDiffChat(cur, prev) ==
    LET c == PromptsGroupFind(cur)
        p == PromptsGroupFind(prev)
    IN  /\ ~SamePrompts(cur, prev)
        /\ MapContent(c.first_system) = MapContent(p.first_system)
        /\ MapContent(c.first_user) = MapContent(p.first_user)

\* let should_renew = ...
ShouldRenew(renew_always, has_uuid, prev_impersonated, same, scdc) ==
    \/ renew_always
    \/ ~has_uuid
    \/ prev_impersonated
    \/ (~renew_always /\ same)
    \/ scdc

\* let retry_regen = ...
RetryRegen(retry_regenerate, same, has_char) ==
    retry_regenerate /\ same /\ has_char

\* The four values try_completion computes from the current and the previous
\* request (lines 250-276).
Decide(cur, prev, has_uuid, e) ==
    LET same == SamePrompts(cur, prev)
        scdc == SameCharDiffChat(cur, prev)
    IN  [ same_prompts        |-> same,
          same_char_diff_chat |-> scdc,
          should_renew        |-> ShouldRenew(e.renew_always, has_uuid,
                                              e.prev_impersonated, same, scdc),
          retry_regen         |-> RetryRegen(e.retry_regenerate, same, e.conv_char) ]

\* ------------------------------------------------------------------- models
\* p.model values: one carrying the marker "claude-", the same with the
\* "--force" suffix, one that only the model list knows, one unknown.
ModelNames == {"claude-3", "claude-3--force", "listed-model", "bogus"}
model_list == {"claude-3", "listed-model"}

\* p.model.contains("claude-")
ContainsMarker(m) == m \in {"claude-3", "claude-3--force"}

\* p.model.replace("--force", "").trim()
StripForce(m) == IF m = "claude-3--force" THEN "claude-3" ELSE m

\* ---------------------------------------------------------------- variables
VARIABLES
    conv_uuid,      \* AppState.conv_uuid: Option<String>
    conv_depth,     \* AppState.conv_depth
    prev_messages,  \* AppState.prev_messages: Vec<Message>
    model,          \* AppState.model: Option<String>
    backend,        \* the conversations that exist on the backend
    uuids,          \* how many identifiers Uuid::new_v4 has produced
    started,        \* how many try_completion calls have begun
    req,            \* per in-flight call: its position and its locals
    path,           \* streaming: "example" (stream_example) or "direct"
    sent_up,        \* streaming: items taken from the upstream stream
    chan,           \* streaming: the mpsc channel's buffer
    hand,           \* streaming: the chunk the producer task holds
    ppc,            \* streaming: the producer task's position
    rx_open,        \* streaming: the receiving side (the client) is alive
    delivered,      \* streaming: the chunks the client has received
    late_reads,     \* streaming: upstream items taken after the client left
    arg,            \* pure functions: the inputs of the call
    ret             \* pure functions: what the call computed, None before it

orchVars == <<conv_uuid, conv_depth, prev_messages, model, backend, uuids,
              started, req>>
streamVars == <<path, sent_up, chan, hand, ppc, rx_open, delivered, late_reads>>
pureVars == <<arg, ret>>
vars == <<conv_uuid, conv_depth, prev_messages, model, backend, uuids,
          started, req, path, sent_up, chan, hand, ppc, rx_open, delivered,
          late_reads, arg, ret>>

\* The concurrent try_completion calls sharing one AppState.
Reqs == {1, 2}

\* ------------------------------------------------------------- request data
Payload(msgs, m, st) == [messages |-> msgs, model |-> m, stream |-> st]

\* The request bodies the orchestrator is driven with: an empty list, the two
\* probes, an unknown model, and three ordinary requests of which the last
\* two carry the same non-system messages in another order.
PayloadMenu ==
    { Payload(<<>>, "claude-3", FALSE),
      Payload(<<TEST_MESSAGE>>, "claude-3", FALSE),
      Payload(<<Message("user", BenchContent)>>, "claude-3", FALSE),
      Payload(<<Message("user", "Hi")>>, "bogus", TRUE),
      Payload(<<Message("user", "Hi")>>, "listed-model", FALSE),
      Payload(<<Message("user", "Hi"), Message("user", "Yo")>>, "claude-3--force", TRUE),
      Payload(<<Message("user", "Yo"), Message("system", "Hi"), Message("user", "Hi")>>,
              "claude-3", TRUE) }

\* The request bodies the decision function is enumerated over.
DecidePayloads ==
    { Payload(l, "claude-3", TRUE) : l \in ListsUpTo(Messages, MaxLen) \ { <<>> } }

\* What a call reads from AppState fields that no code of completion.rs
\* writes (they are set by the bootstrap, the cookie rotation, the stream
\* transformer and the configuration), read once per call.
Env(oe, pro, cm, ra, rr, pi, cc) ==
    [ org_empty |-> oe, is_pro |-> pro, cookie_model |-> cm, changing |-> FALSE,
      renew_always |-> ra, retry_regenerate |-> rr, prev_impersonated |-> pi,
      conv_char |-> cc ]

\* The environments the orchestrator is driven with: the plain one, no
\* organization, a cookie-bound model, and each decision input switched on.
EnvMenu ==
    { Env(FALSE, TRUE, None, FALSE, FALSE, FALSE, FALSE),
      Env(TRUE, TRUE, None, FALSE, FALSE, FALSE, FALSE),
      Env(FALSE, FALSE, Some("claude-3"), FALSE, FALSE, FALSE, FALSE),
      Env(FALSE, TRUE, None, TRUE, FALSE, FALSE, FALSE),
      Env(FALSE, TRUE, None, FALSE, FALSE, TRUE, FALSE),
      Env(FALSE, TRUE, None, FALSE, TRUE, FALSE, TRUE) }

\* The request bodies the entry checks are enumerated over: no turn, each
\* probe alone and followed by another turn, and an ordinary turn; with every
\* model name, streaming or not.
EntryMessages ==
    { <<>>,
      <<TEST_MESSAGE>>,
      <<TEST_MESSAGE, Message("user", "Hi")>>,
      <<Message("user", BenchContent)>>,
      <<Message("user", BenchContent), Message("user", "Hi")>>,
      <<Message("user", "Hi")>> }

EntryPayloads ==
    { Payload(l, m, st) : l \in EntryMessages, m \in ModelNames, st \in BOOLEAN }

\* The environments the entry checks are enumerated over: the organization
\* known or not, a pro account or a cookie bound to a model.
EntryEnvs ==
    { Env(oe, pro, IF pro THEN None ELSE Some("claude-3"), FALSE, FALSE, FALSE, FALSE) :
        oe \in BOOLEAN, pro \in BOOLEAN }

\* The environments the decision function is enumerated over: every value of
\* the always-renew and impersonation inputs, with regeneration off or on.
DecideEnvs ==
    { Env(FALSE, TRUE, None, ra, rg, pi, rg) :
        ra \in BOOLEAN, pi \in BOOLEAN, rg \in BOOLEAN }

NoPayload == Payload(<<>>, "", FALSE)

\* A call's locals before it has computed anything.
FreshReq(p) ==
    [ pc |-> "idle", p |-> p, dec |-> None, rotated |-> FALSE, del |-> None,
      gen |-> None, create |-> None, compl |-> None, type |-> None, result |-> "" ]

\* ------------------------------------------------------------------ backend
\* The backend's side of delete_chat and of the create call, when it answers
\* with success.
BackendDelete(b, u) == b \ {u}
BackendCreate(b, u) == b \cup {u}

\* A faulty variant of DeleteChatOk: removing a conversation that the backend
\* does not hold is reported as an error.
DeleteChatOkIfLive(b, u, up) == up /\ u \in b

\* Whether delete_chat(u) returns Ok: the removal is best-effort, it is an
\* error only when the backend is not working (up is FALSE).
DeleteChatOk(b, u, up) == up

\* ------------------------------------------------------------ try_completion
\* A faulty variant of NeedCookieChange: the account kind is not looked at.
NeedCookieChangeAnyAccount(e, m) == ~e.changing /\ m # e.cookie_model

\* Lines 206-208: the condition under which the cookie is rotated.
NeedCookieChange(e, m) == ~e.changing /\ ~e.is_pro /\ m # e.cookie_model

\* A faulty variant of EarlyResult: the model is checked before the probes.
EarlyResultModelFirst(p, e) ==
    IF e.org_empty THEN "NoValidKey"
    ELSE IF p.messages = <<>> THEN "WrongCompletionFormat"
    ELSE IF p.model \notin model_list /\ ~ContainsMarker(p.model)
        THEN "InvalidModel"
    ELSE IF ~p.stream /\ Len(p.messages) = 1 /\ p.messages[1] = TEST_MESSAGE
        THEN "Title"
    ELSE IF ~p.stream /\ p.messages[1].content = BenchContent THEN "Neutral"
    ELSE ""

\* Lines 202-249: the early returns, in the order of the code; "" when the
\* request passes them all.
EarlyResult(p, e) ==
    IF e.org_empty THEN "NoValidKey"
    ELSE IF p.messages = <<>> THEN "WrongCompletionFormat"
    ELSE IF ~p.stream /\ Len(p.messages) = 1 /\ p.messages[1] = TEST_MESSAGE
        THEN "Title"
    ELSE IF ~p.stream /\ p.messages[1].content = BenchContent THEN "Neutral"
    ELSE IF p.model \notin model_list /\ ~ContainsMarker(p.model)
        THEN "InvalidModel"
    ELSE ""

\* The calls that pass the entry checks.
ValidCalls == { pe \in PayloadMenu \X EnvMenu : EarlyResult(pe[1], pe[2]) = "" }

\* The guard of s.conv_uuid.read() taken in the scrutinee of the if-let of
\* line 283 lives until the end of its block: the call holds the read lock
\* while it awaits delete_chat.
HoldsReadLock(r) == req[r].pc = "delete_chat"

\* Line 286: *s.conv_uuid.write() = Some(Uuid::new_v4().to_string())
NewConvUuid(cur, fresh) == Some(fresh)

\* A faulty variant of StrategyAfterCreate: the strategy follows the decision.
StrategyByDecision(d) ==
    IF d.should_renew THEN "Renew" ELSE "CurrentContinue"

\* Line 312: r#type = RetryStrategy::Renew
StrategyAfterCreate(d) == "Renew"

\* A faulty variant of PrevMessagesAfter: the snapshot is always overwritten.
PrevMessagesAlways(prev, msgs, same) == msgs

\* Lines 277-279: if !same_prompts { *s.prev_messages.write() = p.messages.clone() }
PrevMessagesAfter(prev, msgs, same) == IF ~same THEN msgs ELSE prev

\* Lines 286-309: the new identifier is stored, the depth reset, and the
\* create call issued with the identifier read back from conv_uuid.
AssignAndCreate(r, locals) ==
    /\ conv_uuid' = NewConvUuid(conv_uuid, uuids + 1)
    /\ conv_depth' = 0
    /\ uuids' = uuids + 1
    /\ req' = [req EXCEPT ![r] =
                 [locals EXCEPT !.pc = "create",
                                !.gen = Some(uuids + 1),
                                !.create = conv_uuid']]

\* Lines 193-284 (or -309 when there is no conversation yet): the call runs
\* without suspending from its entry to its first backend call.
Begin(r, p, e) ==
    /\ req[r].pc \in {"idle", "done"}
    /\ started < MaxRequests
    /\ started' = started + 1
    /\ model' = IF e.is_pro THEN Some(StripForce(p.model)) ELSE e.cookie_model
    /\ LET early  == EarlyResult(p, e)
           d      == Decide(p.messages, prev_messages, IsSome(conv_uuid), e)
           locals == [FreshReq(p) EXCEPT
                        !.rotated = ~e.org_empty /\ NeedCookieChange(e, model')]
       IN  IF early # ""
           THEN /\ req' = [req EXCEPT ![r] =
                             [locals EXCEPT !.pc = "done", !.result = early]]
                /\ UNCHANGED <<conv_uuid, conv_depth, prev_messages, uuids>>
           ELSE /\ prev_messages' =
                      PrevMessagesAfter(prev_messages, p.messages, d.same_prompts)
                /\ IF IsSome(conv_uuid)
                   THEN /\ req' = [req EXCEPT ![r] =
                                     [locals EXCEPT !.pc = "delete_chat",
                                                    !.dec = Some(d),
                                                    !.del = conv_uuid]]
                        /\ UNCHANGED <<conv_uuid, conv_depth, uuids>>
                   ELSE AssignAndCreate(r, [locals EXCEPT !.dec = Some(d)])
    /\ UNCHANGED backend
    /\ UNCHANGED <<streamVars, pureVars>>

\* A faulty variant of DeleteReturn: an Err of delete_chat is dropped and the
\* call goes on to the assignment.
DeleteReturnIgnoringErr(r, ok) ==
    /\ req[r].pc = "delete_chat"
    /\ backend' = IF ok THEN BackendDelete(backend, Unwrap(req[r].del)) ELSE backend
    /\ req' = [req EXCEPT ![r].pc = "assign"]
    /\ UNCHANGED <<conv_uuid, conv_depth, prev_messages, model, uuids, started>>
    /\ UNCHANGED <<streamVars, pureVars>>

\* Line 284: self.delete_chat(uuid).await? returns.  An Err ends the call.
DeleteReturn(r, ok) ==
    /\ req[r].pc = "delete_chat"
    /\ IF ok
       THEN /\ backend' = BackendDelete(backend, Unwrap(req[r].del))
            /\ req' = [req EXCEPT ![r].pc = "assign"]
       ELSE /\ backend' = backend
            /\ req' = [req EXCEPT ![r].pc = "done", ![r].result = "DeleteError"]
    /\ UNCHANGED <<conv_uuid, conv_depth, prev_messages, model, uuids, started>>
    /\ UNCHANGED <<streamVars, pureVars>>

\* Lines 286-309 after a delete: the write lock on conv_uuid is taken once
\* no other call holds the read lock.
Assign(r) ==
    /\ req[r].pc = "assign"
    /\ \A q \in Reqs \ {r} : ~HoldsReadLock(q)
    /\ AssignAndCreate(r, req[r])
    /\ UNCHANGED <<prev_messages, model, backend, started>>
    /\ UNCHANGED <<streamVars, pureVars>>

\* Lines 309-457: the create call returns; on success the strategy is set,
\* the prompt built and the completion call issued on the identifier that
\* conv_uuid holds now.  With settings.xml_plot off the call panics
\* (unimplemented!() at line 381).
CreateReturn(r, ok, xml_plot) ==
    /\ req[r].pc = "create"
    /\ IF ~ok
       THEN /\ backend' = backend
            /\ req' = [req EXCEPT ![r].pc = "done", ![r].result = "CreateError"]
       ELSE /\ backend' = BackendCreate(backend, Unwrap(req[r].create))
            /\ IF ~xml_plot
               THEN req' = [req EXCEPT
                              ![r].pc = "done",
                              ![r].type = Some(StrategyAfterCreate(Unwrap(req[r].dec))),
                              ![r].result = "panic"]
               ELSE req' = [req EXCEPT
                              ![r].pc = "completion",
                              ![r].type = Some(StrategyAfterCreate(Unwrap(req[r].dec))),
                              ![r].compl = conv_uuid]
    /\ UNCHANGED <<conv_uuid, conv_depth, prev_messages, model, uuids, started>>
    /\ UNCHANGED <<streamVars, pureVars>>

\* Lines 457-474: the completion call returns; on success the transformed
\* stream becomes the response body.
CompletionReturn(r, ok) ==
    /\ req[r].pc = "completion"
    /\ req' = [req EXCEPT ![r].pc = "done",
                          ![r].result = IF ok THEN "Stream" ELSE "CompletionError"]
    /\ UNCHANGED <<conv_uuid, conv_depth, prev_messages, model, backend, uuids,
                   started>>
    /\ UNCHANGED <<streamVars, pureVars>>

\* ------------------------------------------------------------ stream_example
\* The transformed upstream stream yields the items 1, 2, ... in this order
\* and may end after any of them; UpstreamLen bounds how many it yields.
UpstreamLen == ChannelCapacity + ExtraItems

\* 1, 2, ..., n
Iota(n) == [i \in 1..n |-> i]

\* A faulty variant of ChanPush: the chunk is put in front of the buffered ones.
ChanPushFront(c, x) == <<x>> \o c

\* tx.send(Ok(chunk)): the chunk goes behind the buffered ones.
ChanPush(c, x) == Append(c, x)

\* A faulty variant of HasPermit: a send never waits for room.
HasPermitAlways(c) == TRUE

\* mpsc::channel(32): a send completes only while fewer than 32 chunks wait.
HasPermit(c) == Len(c) < ChannelCapacity

\* A faulty variant of SendIsErr: the result of the send is not looked at.
SendIsErrNever(open) == FALSE

\* tx.send(..).await.is_err(): the send fails once the receiver is dropped.
SendIsErr(open) == ~open

\* Line 46: output_stream.next().await yields Some(result).
ProducerRead(ok) ==
    /\ path = "example"
    /\ ppc = "next"
    /\ sent_up < UpstreamLen
    /\ sent_up' = sent_up + 1
    /\ hand' = Some([n |-> sent_up + 1, ok |-> ok])
    /\ late_reads' = IF rx_open THEN late_reads ELSE late_reads + 1
    /\ ppc' = "sleep"
    /\ UNCHANGED <<path, chan, rx_open, delivered>>
    /\ UNCHANGED <<orchVars, pureVars>>

\* Line 46: output_stream.next().await yields None; the task ends and drops tx.
ProducerEnd ==
    /\ path = "example"
    /\ ppc = "next"
    /\ ppc' = "ended"
    /\ UNCHANGED <<path, sent_up, chan, hand, rx_open, delivered, late_reads>>
    /\ UNCHANGED <<orchVars, pureVars>>

\* Line 48: the sleep of 100 ms is over.
ProducerSleep ==
    /\ path = "example"
    /\ ppc = "sleep"
    /\ ppc' = "send"
    /\ UNCHANGED <<path, sent_up, chan, hand, rx_open, delivered, late_reads>>
    /\ UNCHANGED <<orchVars, pureVars>>

\* Lines 51-55: result.unwrap() panics on an Err item; otherwise the chunk is
\* sent, which fails when the receiver is gone (break), completes when the
\* channel has room, and stays suspended while it is full.
ProducerSend ==
    /\ path = "example"
    /\ ppc = "send"
    /\ IF ~Unwrap(hand).ok
       THEN /\ ppc' = "panicked"
            /\ hand' = None
            /\ chan' = chan
       ELSE IF SendIsErr(rx_open)
       THEN /\ ppc' = "cancelled"
            /\ hand' = None
            /\ chan' = chan
       ELSE /\ HasPermit(chan)
            /\ chan' = ChanPush(chan, Unwrap(hand).n)
            /\ hand' = None
            /\ ppc' = "next"
    /\ UNCHANGED <<path, sent_up, rx_open, delivered, late_reads>>
    /\ UNCHANGED <<orchVars, pureVars>>

\* Lines 60-61: the body polls the ReceiverStream and gets the oldest chunk.
ClientRecv ==
    /\ path = "example"
    /\ rx_open
    /\ chan # <<>>
    /\ delivered' = Append(delivered, Head(chan))
    /\ chan' = Tail(chan)
    /\ UNCHANGED <<path, sent_up, hand, ppc, rx_open, late_reads>>
    /\ UNCHANGED <<orchVars, pureVars>>

\* The client disconnects: the body, and with it the receiver (or, on the
\* direct path, the transformed stream itself), is dropped together with the
\* chunks still buffered.
ClientDisconnect ==
    /\ rx_open
    /\ rx_open' = FALSE
    /\ chan' = <<>>
    /\ UNCHANGED <<path, sent_up, hand, ppc, delivered, late_reads>>
    /\ UNCHANGED <<orchVars, pureVars>>

\* ---------------------------------------- try_completion's response body
\* Lines 472-474: Body::from_stream(output_stream).  No task and no channel:
\* the upstream stream is polled when, and only when, the body is polled.
DirectPull(ok) ==
    /\ path = "direct"
    /\ ppc = "none"
    /\ rx_open
    /\ sent_up < UpstreamLen
    /\ sent_up' = sent_up + 1
    /\ IF ok
       THEN delivered' = Append(delivered, sent_up + 1) /\ ppc' = ppc
       ELSE delivered' = delivered /\ ppc' = "ended"
    /\ UNCHANGED <<path, chan, hand, rx_open, late_reads>>
    /\ UNCHANGED <<orchVars, pureVars>>

\* The polled upstream stream yields None: the body ends.
DirectEnd ==
    /\ path = "direct"
    /\ ppc = "none"
    /\ rx_open
    /\ ppc' = "ended"
    /\ UNCHANGED <<path, sent_up, chan, hand, rx_open, delivered, late_reads>>
    /\ UNCHANGED <<orchVars, pureVars>>

\* ------------------------------------------- try_completion's stop list
\* A string is the sequence of its words and white-space characters.
IsSpace(c) == c \in {" ", "\n"}

\* str::trim_start and str::trim_end
RECURSIVE TrimStart(_)
TrimStart(s) ==
    IF s # <<>> /\ IsSpace(Head(s)) THEN TrimStart(Tail(s)) ELSE s

RECURSIVE TrimEnd(_)
TrimEnd(s) ==
    IF s # <<>> /\ IsSpace(s[Len(s)]) THEN TrimEnd(SubSeq(s, 1, Len(s) - 1)) ELSE s

\* str::trim (line 361; text.rs lines 59, 73, 91)
Trim(s) == TrimEnd(TrimStart(s))

\* The ASCII lower-case form of a word.
LowerWord(w) ==
    CASE w = "Foo" -> "foo"
      [] w = "Bar" -> "bar"
      [] w = "Human:" -> "human:"
      [] w = "Assistant:" -> "assistant:"
      [] OTHER -> w

\* The ASCII lower-case form that eq_ignore_ascii_case compares.
AsciiLower(s) == [i \in 1..Len(s) |-> LowerWord(s[i])]

\* Line 362: r.eq_ignore_ascii_case(s)
EqIgnoreAsciiCase(r, s) == AsciiLower(r) = AsciiLower(s)

\* A text is a sequence of parts: literal characters, or the characters of a
\* JSON array of strings.  The prompt is a text whose markers are kept as
\* one piece each.
Lit(t) == [part |-> "lit", text |-> t, list |-> <<>>]
Arr(l) == [part |-> "arr", text |-> "", list |-> l]
Marker(k, l) == [part |-> "marker", text |-> k, list |-> l]

\* The pieces the prompts are built from: plain text, two stopSet markers
\* and two stopRevoke markers.
PromptPieces ==
    { Lit("Hi"),
      Marker("stopSet", << <<"Foo">> >>),
      Marker("stopSet", << <<"Bar">>, <<" ", " ">> >>),
      Marker("stopRevoke", << <<"human:">> >>),
      Marker("stopRevoke", << <<"foo">> >>) }

\* p.stop: Option<Vec<String>>
ClientStops ==
    { None,
      Some(<< <<"Foo">>, <<" ", " ">> >>),
      Some(<< <<" ", "Foo", " ">>, <<"Human:">>, <<>> >>) }

StopInputs ==
    { [prompt |-> pr, stop |-> st] :
        pr \in ListsUpTo(PromptPieces, MaxPieces), st \in ClientStops }

\* Lines 343-344, 347-348: re.find_iter(&prompt), the matches of the marker
\* <|k [..] |> in the order of the text.
FindIter(prompt, k) ==
    SelectSeq(prompt, LAMBDA x : x.part = "marker" /\ x.text = k)

\* Iterator::nth(n): the element after n others, if there is one.
Nth(matches, n) == IF Len(matches) > n THEN Some(matches[n + 1]) ELSE None

\* Lines 351, 354: s.as_str() on the Match that find_iter yields: the whole
\* matched text, from "<|" to "|>".
MatchAsStr(m) == <<Lit("<|" \o m.text \o " "), Arr(m.list), Lit("|>")>>

\* serde_json::from_str::<Vec<String>>(text).ok(): the text parses when it
\* is one JSON array and nothing else.
FromStr(text) ==
    IF Len(text) = 1 /\ text[1].part = "arr" THEN Some(text[1].list) ELSE None

\* Lines 342-355: the list of the marker k, empty when nth(1) or the
\* parse yields nothing.
MarkerList(prompt, k) ==
    LET m      == Nth(FindIter(prompt, k), 1)
        parsed == IF IsSome(m) THEN FromStr(MatchAsStr(Unwrap(m))) ELSE None
    IN  IF IsSome(parsed) THEN Unwrap(parsed) ELSE <<>>

\* Lines 360-363: the filter's predicate.
KeepStop(s, stop_revoke) ==
    /\ Trim(s) # <<>>
    /\ ~\E i \in 1..Len(stop_revoke) : EqIgnoreAsciiCase(stop_revoke[i], Trim(s))

\* Line 359: the two fixed delimiters.
DefaultStops == << <<"\n", "\n", "Human:">>, <<"\n", "\n", "Assistant:">> >>

\* Lines 356-364: the chain and the filter.
StopChain(stop_set, client, stop_revoke) ==
    SelectSeq(stop_set \o (IF IsSome(client) THEN Unwrap(client) ELSE <<>>) \o DefaultStops,
              LAMBDA s : KeepStop(s, stop_revoke))

\* Lines 342-364: the stop lists computed from the prompt and the request.
StopOf(i) ==
    LET stop_set    == MarkerList(i.prompt, "stopSet")
        stop_revoke == MarkerList(i.prompt, "stopRevoke")
    IN  [ stop_set |-> stop_set, stop_revoke |-> stop_revoke,
          stop |-> StopChain(stop_set, i.stop, stop_revoke) ]

\* Lines 342-364 applied to the input.
ComputeStop ==
    /\ IsSome(arg)
    /\ ret = None
    /\ ret' = Some(StopOf(Unwrap(arg)))
    /\ UNCHANGED <<arg, orchVars, streamVars>>

\* ------------------------------------------------- text.rs: merge_messages
\* types::message: a content block, a message content, a message.
TextBlock(t) == [block |-> "text", text |-> t, source |-> 0]
ImageBlock(src) == [block |-> "image", text |-> <<>>, source |-> src]
OtherBlock == [block |-> "other", text |-> <<>>, source |-> 0]
TextContent(t) == [kind |-> "text", text |-> t, blocks |-> <<>>]
BlocksContent(bs) == [kind |-> "blocks", text |-> <<>>, blocks |-> bs]
Msg(r, c) == [role |-> r, content |-> c]

\* The messages the lists are built from: plain texts (one of them blank,
\* one padded with spaces) and block contents in which images and another
\* block stand before, between and after the text blocks.
MsgMenu ==
    { Msg("user", TextContent(<<"a">>)),
      Msg("assistant", TextContent(<<" ", "b", " ">>)),
      Msg("user", TextContent(<<" ", " ">>)),
      Msg("assistant", BlocksContent(<<>>)),
      Msg("user", BlocksContent(<<TextBlock(<<"a">>), ImageBlock(1),
                                  TextBlock(<<"b", " ">>), ImageBlock(2)>>)),
      Msg("assistant", BlocksContent(<<ImageBlock(3), TextBlock(<<"c">>)>>)),
      Msg("user", BlocksContent(<<TextBlock(<<" ">>), TextBlock(<<"b">>)>>)),
      Msg("assistant", BlocksContent(<<TextBlock(<<"c">>), OtherBlock,
                                       TextBlock(<<"a">>)>>)) }

\* config.custom_h, config.custom_a, config.user_real_roles
MergeConfig(h, a, rr) == [custom_h |-> h, custom_a |-> a, user_real_roles |-> rr]
MergeConfigs ==
    { MergeConfig(None, None, FALSE), MergeConfig(Some("User"), Some("Bot"), TRUE) }

\* The merged system texts the function is given.
SystemTexts == { <<>>, <<" ", "\n">>, <<" ", "S", " ">> }

MergeInputs ==
    { [msgs |-> l, system |-> sy, config |-> c] :
        l \in ListsUpTo(MsgMenu, MaxMsgs), sy \in SystemTexts, c \in MergeConfigs }

\* [String]::join(sep)
RECURSIVE Join(_, _)
Join(strs, sep) ==
    IF strs = <<>> THEN <<>>
    ELSE IF Len(strs) = 1 THEN strs[1]
    ELSE strs[1] \o sep \o Join(Tail(strs), sep)

\* The concatenation of a sequence of sequences.
RECURSIVE Concat(_)
Concat(ss) == IF ss = <<>> THEN <<>> ELSE Head(ss) \o Concat(Tail(ss))

\* Iterator::map_while stops at the first element its closure maps to
\* None: the number of elements before the first one in stop.
TakenBefore(n, stop) == IF stop = {} THEN n ELSE (CHOOSE i \in stop : \A j \in stop : i <= j) - 1

\* Lines 70-82: the inner map_while over the blocks of one message.  A text
\* block yields its trimmed text; an image block pushes its source and
\* yields None, as any other block does, which ends the iteration.
MapWhileBlocks(blocks) ==
    LET n    == Len(blocks)
        k    == TakenBefore(n, { i \in 1..n : blocks[i].block # "text" })
    IN  [ texts |-> [i \in 1..k |-> Trim(blocks[i].text)],
          imgs  |-> IF k < n /\ blocks[k + 1].block = "image"
                    THEN <<blocks[k + 1].source>> ELSE <<>> ]

\* Lines 67-98: the closure of the outer map_while applied to one message:
\* the turn it yields, if any, and the images it pushes.
FlattenMessage(m) ==
    IF m.content.kind = "blocks"
    THEN LET b      == MapWhileBlocks(m.content.blocks)
             blocks == Join(b.texts, <<"\n">>)
         IN  [ turn |-> IF blocks = <<>> THEN None
                        ELSE Some([role |-> m.role, text |-> blocks]),
               imgs |-> b.imgs ]
    ELSE LET content == Trim(m.content.text)
         IN  [ turn |-> IF content = <<>> THEN None
                        ELSE Some([role |-> m.role, text |-> content]),
               imgs |-> <<>> ]

\* Lines 65-98: the outer map_while over the messages: the turns of the
\* messages before the first one that yields None, and the images pushed
\* by the messages the closure was applied to (that one included).
MapWhileMessages(msgs) ==
    LET n == Len(msgs)
        f == [i \in 1..n |-> FlattenMessage(msgs[i])]
        k == TakenBefore(n, { i \in 1..n : f[i].turn = None })
    IN  [ turns |-> [i \in 1..k |-> Unwrap(f[i].turn)],
          imgs  |-> Concat([i \in 1..(IF k < n THEN k + 1 ELSE n) |-> f[i].imgs]) ]

\* A faulty variant of ChunkBy: every turn is a group of its own.
ChunkEach(turns) ==
    [i \in 1..Len(turns) |-> [role |-> turns[i].role, texts |-> <<turns[i].text>>]]

\* Line 100: chunk_by(|m| m.0.clone()): consecutive turns with the same role
\* form one group.
RECURSIVE ChunkBy(_)
ChunkBy(turns) ==
    IF turns = <<>> THEN <<>>
    ELSE LET h    == Head(turns)
             rest == ChunkBy(Tail(turns))
         IN  IF rest # <<>> /\ rest[1].role = h.role
             THEN <<[role |-> h.role, texts |-> <<h.text>> \o rest[1].texts]>> \o Tail(rest)
             ELSE <<[role |-> h.role, texts |-> <<h.text>>]>> \o rest

\* Lines 102-105: the texts of each group joined with a new line.
JoinGroups(groups) ==
    [i \in 1..Len(groups) |->
        [role |-> groups[i].role, text |-> Join(groups[i].texts, <<"\n">>)]]

\* Line 58: line_breaks
LineBreaks(c) ==
    IF c.user_real_roles THEN <<"\n", "\n", "\\x08">> ELSE <<"\n", "\n">>

\* Lines 44-55, 114-117: format!("{}: ", h) or format!("{}: ", a)
Prefix(role, c) ==
    LET h == IF IsSome(c.custom_h) THEN Unwrap(c.custom_h) ELSE "Human"
        a == IF IsSome(c.custom_a) THEN Unwrap(c.custom_a) ELSE "Assistant"
    IN  IF role = "user" THEN <<h \o ":", " ">> ELSE <<a \o ":", " ">>

\* A faulty variant of WriteFirst: the first chunk is written with its prefix.
WriteFirstPrefixed(chunk, c) == Prefix(chunk.role, c) \o chunk.text

\* Line 111: w += first.1.as_str()
WriteFirst(chunk, c) == chunk.text

\* Line 118: write!(w, "{}{}{}", line_breaks, prefix, text)
WriteChunk(chunk, c) == LineBreaks(c) \o Prefix(chunk.role, c) \o chunk.text

\* Lines 40-131: merge_messages.  The record holds the turns and chunks the
\* function computed, and merged, the Option<Merged> it returned (without
\* its prompt field, the polyfill).
merge_messages(msgs, system_in, c) ==
    IF msgs = <<>> THEN [turns |-> <<>>, chunks |-> <<>>, merged |-> None]
    ELSE
      LET system == Trim(system_in)
          mw     == MapWhileMessages(msgs)
          chunks == JoinGroups(ChunkBy(mw.turns))
          out(m) == [turns |-> mw.turns, chunks |-> chunks, merged |-> m]
          rest(l) == Concat([i \in 1..Len(l) |-> WriteChunk(l[i], c)])
      IN  IF system # <<>>
          THEN out(Some([paste |-> system \o rest(chunks), images |-> mw.imgs]))
          ELSE IF chunks = <<>> THEN out(None)
          ELSE out(Some([paste  |-> WriteFirst(chunks[1], c) \o rest(Tail(chunks)),
                         images |-> mw.imgs]))

\* merge_messages applied to the input.
CallMergeMessages ==
    /\ IsSome(arg)
    /\ ret = None
    /\ LET i == Unwrap(arg)
       IN  ret' = Some(merge_messages(i.msgs, i.system, i.config))
    /\ UNCHANGED <<arg, orchVars, streamVars>>

\* ------------------------------- config.rs: load_padtxt; text.rs: padding
\* What load_padtxt finds: no file name, no configuration directory, no such
\* file, an unreadable file, or a file of raw tokens of which junk ones are
\* empty once their non-ASCII characters are removed and they are trimmed.
PadFile(k, raw, junk) == [kind |-> k, raw |-> raw, junk |-> junk]

PadFiles ==
    { PadFile(k, 0, 0) : k \in {"noname", "nodir", "missing", "unreadable"} }
    \cup { PadFile("file", raw, junk) :
             raw \in (MinPadTokens - 1)..(MinPadTokens + PadSpare), junk \in {0, 1} }

\* The slice lengths and slice starts the random choices are taken from: the
\* ends of each range.
SliceLens == {SliceMin, SliceMax - 1}

\* A faulty variant of SliceStartMax: the start may be any index of the corpus.
SliceStartAnywhere(n, slice_len) == n - 1

\* Line 148: rng.random_range(0..tokens.len() - slice_len): the largest start.
SliceStartMax(n, slice_len) == n - slice_len - 1

SliceStarts(n, slice_len) == {0, SliceStartMax(n, slice_len)}

\* Every start that is the first or the last one for some corpus and length.
AllSliceStarts ==
    UNION { SliceStarts(n, l) : n \in MinPadTokens..(MinPadTokens + PadSpare), l \in SliceLens }

\* A faulty variant of PadTooShort: a file one token short is accepted.
PadTooShortByTwo(n) == n < MinPadTokens - 1

\* config.rs line 415: tokens.len() < 4096
PadTooShort(n) == n < MinPadTokens

\* config.rs lines 408-414: the tokens that are left of the file's.
KeptTokens(f) == f.raw - f.junk

\* The locals of load_padtxt and generate_padding; pad_tokens is the length
\* of Config.pad_tokens, which Config::default leaves empty.
PadState(pc, n, pushed, start, len) ==
    [pc |-> pc, pad_tokens |-> n, pushed |-> pushed, slice_start |-> start, slice_len |-> len]

\* config.rs lines 387-419: load_padtxt returns without a corpus, panics on
\* a short file, or stores the tokens.
LoadPadtxt ==
    /\ IsSome(arg)
    /\ ret = None
    /\ LET f == Unwrap(arg)
       IN  ret' = Some(IF f.kind # "file" THEN PadState("loaded", 0, 0, 0, 0)
                       ELSE IF PadTooShort(KeptTokens(f)) THEN PadState("load_panic", 0, 0, 0, 0)
                       ELSE PadState("loaded", KeptTokens(f), 0, 0, 0))
    /\ UNCHANGED <<arg, orchVars, streamVars>>

\* text.rs lines 138-144: generate_padding is entered; the assertion on the
\* corpus length passes or panics.
PadAssert ==
    /\ IsSome(ret)
    /\ Unwrap(ret).pc = "loaded"
    /\ ret' = Some([Unwrap(ret) EXCEPT
                      !.pc = IF Unwrap(ret).pad_tokens >= MinPadTokens
                             THEN "loop" ELSE "assert_panic"])
    /\ UNCHANGED <<arg, orchVars, streamVars>>

\* text.rs lines 146-159: one turn of the loop: a slice is chosen, appended
\* (with one new line, or two), and the loop is left once more than 4000
\* tokens were pushed.
PadSlice(slice_len, slice_start) ==
    /\ IsSome(ret)
    /\ Unwrap(ret).pc = "loop"
    /\ slice_start \in SliceStarts(Unwrap(ret).pad_tokens, slice_len)
    /\ LET pushed == Unwrap(ret).pushed + slice_len
       IN  ret' = Some([Unwrap(ret) EXCEPT
                         !.pushed = pushed,
                         !.slice_start = slice_start,
                         !.slice_len = slice_len,
                         !.pc = IF pushed > PadTarget THEN "done" ELSE "loop"])
    /\ UNCHANGED <<arg, orchVars, streamVars>>

\* ------------------------------------------------------- config.rs: Cookie
\* A cookie string is the sequence of its characters.
Digits == {"0", "1", "2", "3", "4", "5", "6", "7", "8", "9"}
Lowers ==
    {"a", "b", "c", "d", "e", "f", "g", "h", "i", "j", "k", "l", "m", "n", "o", "p", "q", "r", "s", "t", "u", "v", "w", "x", "y", "z"}
Uppers ==
    {"A", "B", "C", "D", "E", "F", "G", "H", "I", "J", "K", "L", "M", "N", "O", "P", "Q", "R", "S", "T", "U", "V", "W", "X", "Y", "Z"}

\* char::is_ascii_alphanumeric
IsAsciiAlphanumeric(c) == c \in Digits \cup Lowers \cup Uppers

\* The character class [0-9A-Za-z_-] of the pattern.
IsPatternChar(c) == IsAsciiAlphanumeric(c) \/ c = "_" \/ c = "-"

\* n times the character c.
Rep(c, n) == [i \in 1..n |-> c]

\* "sessionKey=" and "sk-ant-sid01-"
SessionKey == <<"s", "e", "s", "s", "i", "o", "n", "K", "e", "y", "=">>
SkPrefix == <<"s", "k", "-", "a", "n", "t", "-", "s", "i", "d", "0", "1", "-">>

\* Line 142: PLACEHOLDER_COOKIE
PLACEHOLDER_COOKIE ==
    SkPrefix \o Rep("-", 27) \o <<"S", "E", "T", "_", "Y", "O", "U", "R", "_", "C", "O", "O", "K", "I", "E", "_", "H", "E", "R", "E">>
             \o Rep("-", 40) \o Rep("A", 8)

\* The pieces the raw inputs are built from: the marker "sessionKey=", its
\* two halves, an "@", two characters that are not kept, a letter, and a
\* well-formed token.
RawPieces ==
    { SessionKey, <<"s", "e", "s", "s", "i", "o", "n">>, <<"K", "e", "y", "=">>, <<"@">>, <<" ", "%">>, <<"x">>,
      PLACEHOLDER_COOKIE }

RECURSIVE RawInputs(_)
RawInputs(n) ==
    IF n = 0 THEN { <<>> }
    ELSE LET shorter == RawInputs(n - 1)
         IN  shorter \cup { p \o r : p \in RawPieces, r \in shorter }

\* The pattern matches the characters of s that start at place i: the regex
\* sk-ant-sid01-[0-9A-Za-z_-]{86}-[0-9A-Za-z_-]{6}AA
MatchesAt(s, i) ==
    LET b == i + Len(SkPrefix)
        t == b + BodyLen + 1
    IN  /\ i + Len(SkPrefix) + BodyLen + 1 + TailLen + 2 - 1 <= Len(s)
        /\ SubSeq(s, i, b - 1) = SkPrefix
        /\ \A j \in b..(b + BodyLen - 1) : IsPatternChar(s[j])
        /\ s[b + BodyLen] = "-"
        /\ \A j \in t..(t + TailLen - 1) : IsPatternChar(s[j])
        /\ s[t + TailLen] = "A"
        /\ s[t + TailLen + 1] = "A"

\* Line 201: re.is_match(&self.inner): the pattern matches somewhere in s.
IsMatch(s) == \E i \in 1..Len(s) : MatchesAt(s, i)

\* Lines 197-203: Cookie::validate
Validate(c) == IsMatch(c.inner)

\* Line 214: original.split_once('@').map_or(original, |(_, c)| c)
SplitOnceAt(s) ==
    LET at == { i \in 1..Len(s) : s[i] = "@" }
    IN  IF at = {} THEN s
        ELSE SubSeq(s, (CHOOSE i \in at : \A j \in at : i <= j) + 1, Len(s))

\* Lines 216-219: the characters that are kept.
FilterChars(s) == SelectSeq(s, LAMBDA c : IsAsciiAlphanumeric(c) \/ c = "=" \/ c = "_" \/ c = "-")

StartsWith(s, pat) == Len(s) >= Len(pat) /\ SubSeq(s, 1, Len(pat)) = pat

\* A faulty variant of TrimStartMatches: the pattern is removed once.
StripPrefixOnce(s, pat) ==
    IF StartsWith(s, pat) THEN SubSeq(s, Len(pat) + 1, Len(s)) ELSE s

\* A faulty variant of TrimStartMatches: nothing is removed.
TrimStartNothing(s, pat) == s

\* Line 220: trim_start_matches("sessionKey="): the pattern is removed from
\* the start as often as it stands there.
RECURSIVE TrimStartMatches(_, _)
TrimStartMatches(s, pat) ==
    IF StartsWith(s, pat) THEN TrimStartMatches(SubSeq(s, Len(pat) + 1, Len(s)), pat) ELSE s

\* Lines 211-229: Cookie::from
CookieFrom(original) ==
    [inner |-> TrimStartMatches(FilterChars(SplitOnceAt(original)), SessionKey)]

\* Lines 189-195: Cookie::default
CookieDefault == [inner |-> PLACEHOLDER_COOKIE]

\* Lines 231-250: Display, and Serialize through it.
CookieToString(c) == SessionKey \o c.inner

\* What is known of a Cookie value: how it came to be, its serialized form
\* once it was written, and the Cookie read back from that.
CookieState(how, c) == [how |-> how, cookie |-> c, shown |-> None, again |-> None]

\* Cookie::from(raw), or Cookie::deserialize of the string raw (lines 252-261).
CookieParse ==
    /\ ret = None
    /\ ret' = Some(CookieState("from", CookieFrom(Unwrap(arg))))
    /\ UNCHANGED <<arg, orchVars, streamVars>>

\* Cookie::default()
CookieMakeDefault ==
    /\ ret = None
    /\ ret' = Some(CookieState("default", CookieDefault))
    /\ UNCHANGED <<arg, orchVars, streamVars>>

\* Lines 205-208: clear
CookieClear ==
    /\ IsSome(ret)
    /\ Unwrap(ret).shown = None
    /\ Unwrap(ret).how # "clear"
    /\ ret' = Some(CookieState("clear", [inner |-> <<>>]))
    /\ UNCHANGED <<arg, orchVars, streamVars>>

\* The cookie is serialized (to_string).
CookieSerialize ==
    /\ IsSome(ret)
    /\ Unwrap(ret).shown = None
    /\ ret' = Some([Unwrap(ret) EXCEPT !.shown = Some(CookieToString(Unwrap(ret).cookie))])
    /\ UNCHANGED <<arg, orchVars, streamVars>>

\* The serialized form is deserialized: Cookie::from of the string.
CookieDeserialize ==
    /\ IsSome(ret)
    /\ IsSome(Unwrap(ret).shown)
    /\ Unwrap(ret).again = None
    /\ ret' = Some([Unwrap(ret) EXCEPT !.again = Some(CookieFrom(Unwrap(Unwrap(ret).shown)))])
    /\ UNCHANGED <<arg, orchVars, streamVars>>

\* ----------------------------------------------------------- specifications
StreamIdle ==
    /\ path = "example"
    /\ sent_up = 0
    /\ chan = <<>>
    /\ hand = None
    /\ ppc = "next"
    /\ rx_open = TRUE
    /\ delivered = <<>>
    /\ late_reads = 0

\* A fresh AppState on which no call has been started.
OrchIdle ==
    /\ conv_uuid = None
    /\ conv_depth = 0
    /\ prev_messages = <<>>
    /\ model = None
    /\ backend = {}
    /\ uuids = 0
    /\ started = 0
    /\ req = [r \in Reqs |-> FreshReq(NoPayload)]

\* No pure function is being applied.
PureIdle ==
    /\ arg = None
    /\ ret = None

\* A fresh AppState: no conversation, no previous request.
Init ==
    /\ conv_uuid = None
    /\ conv_depth = 0
    /\ prev_messages = <<>>
    /\ model = None
    /\ backend = {}
    /\ uuids = 0
    /\ started = 0
    /\ req = [r \in Reqs |-> FreshReq(NoPayload)]
    /\ StreamIdle
    /\ PureIdle

Next ==
    \/ \E r \in Reqs, p \in PayloadMenu, e \in EnvMenu : Begin(r, p, e)
    \/ \E r \in Reqs, ok \in BOOLEAN : DeleteReturn(r, ok)
    \/ \E r \in Reqs : Assign(r)
    \/ \E r \in Reqs, ok \in BOOLEAN, xml_plot \in BOOLEAN : CreateReturn(r, ok, xml_plot)
    \/ \E r \in Reqs, ok \in BOOLEAN : CompletionReturn(r, ok)

\* The orchestrator: try_completion calls on one AppState.
Spec == Init /\ [][Next]_vars

\* The decision function: one call on an AppState that holds any previous
\* request and, or not, a conversation.
InitDecide ==
    /\ conv_uuid \in {None, Some(0)}
    /\ conv_depth = 0
    /\ prev_messages \in ListsUpTo(Messages, MaxLen)
    /\ model = None
    /\ backend = IF IsSome(conv_uuid) THEN {0} ELSE {}
    /\ uuids = 0
    /\ started = 0
    /\ req = [r \in Reqs |-> FreshReq(NoPayload)]
    /\ StreamIdle
    /\ PureIdle

NextDecide ==
    \E p \in DecidePayloads, e \in DecideEnvs : started = 0 /\ Begin(1, p, e)

SpecDecide == InitDecide /\ [][NextDecide]_vars

\* Calls processed one after another on one AppState: a call begins only
\* when the one before has returned; every backend call may fail.
NextSeq ==
    \/ \E p \in PayloadMenu, e \in EnvMenu : Begin(1, p, e)
    \/ \E ok \in BOOLEAN : DeleteReturn(1, ok)
    \/ Assign(1)
    \/ \E ok \in BOOLEAN, xml_plot \in BOOLEAN : CreateReturn(1, ok, xml_plot)
    \/ \E ok \in BOOLEAN : CompletionReturn(1, ok)

SpecSeq == Init /\ [][NextSeq]_vars

\* An AppState that holds, or not, a conversation.
InitRecover ==
    /\ conv_uuid \in {None, Some(0)}
    /\ conv_depth = 0
    /\ prev_messages = <<>>
    /\ model = None
    /\ backend = IF IsSome(conv_uuid) THEN {0} ELSE {}
    /\ uuids = 0
    /\ started = 0
    /\ req = [r \in Reqs |-> FreshReq(NoPayload)]
    /\ StreamIdle
    /\ PureIdle

\* The backend answers the second call.
SecondReturns ==
    \/ /\ req[2].pc = "delete_chat"
       /\ DeleteReturn(2, DeleteChatOk(backend, Unwrap(req[2].del), TRUE))
    \/ Assign(2)
    \/ CreateReturn(2, TRUE, TRUE)
    \/ CompletionReturn(2, TRUE)

\* Two valid calls one after the other, with settings.xml_plot on.  The
\* backend calls of the first may fail; the second is made once the first
\* has returned and the backend works again.
NextRecover ==
    \/ \E pe \in ValidCalls : started = 0 /\ Begin(1, pe[1], pe[2])
    \/ \E ok \in BOOLEAN : DeleteReturn(1, ok)
    \/ Assign(1)
    \/ \E ok \in BOOLEAN : CreateReturn(1, ok, TRUE)
    \/ \E ok \in BOOLEAN : CompletionReturn(1, ok)
    \/ \E pe \in ValidCalls : started = 1 /\ req[1].pc = "done" /\ Begin(2, pe[1], pe[2])
    \/ SecondReturns

\* A working backend answers every call made to it, and a call that can
\* take the write lock takes it.
SpecRecover == InitRecover /\ [][NextRecover]_vars /\ WF_vars(SecondReturns)

\* The entry checks: one call on an AppState that holds, or not, a
\* conversation of some depth and a previous request.
InitEntry ==
    /\ conv_uuid \in {None, Some(0)}
    /\ conv_depth \in (IF IsSome(conv_uuid) THEN {0, 1} ELSE {0})
    /\ prev_messages \in {<<>>, <<Message("user", "Hi")>>}
    /\ model = None
    /\ backend = IF IsSome(conv_uuid) THEN {0} ELSE {}
    /\ uuids = 0
    /\ started = 0
    /\ req = [r \in Reqs |-> FreshReq(NoPayload)]
    /\ StreamIdle
    /\ PureIdle

NextEntry ==
    \E p \in EntryPayloads, e \in EntryEnvs : started = 0 /\ Begin(1, p, e)

SpecEntry == InitEntry /\ [][NextEntry]_vars

\* The response stream: stream_example's producer task and channel, or the
\* direct hand-over of try_completion.
InitStream ==
    /\ conv_uuid = None
    /\ conv_depth = 0
    /\ prev_messages = <<>>
    /\ model = None
    /\ backend = {}
    /\ uuids = 0
    /\ started = 0
    /\ req = [r \in Reqs |-> FreshReq(NoPayload)]
    /\ path \in {"example", "direct"}
    /\ sent_up = 0
    /\ chan = <<>>
    /\ hand = None
    /\ ppc = IF path = "example" THEN "next" ELSE "none"
    /\ rx_open = TRUE
    /\ delivered = <<>>
    /\ late_reads = 0
    /\ PureIdle

NextStream ==
    \/ \E ok \in BOOLEAN : ProducerRead(ok)
    \/ ProducerEnd
    \/ ProducerSleep
    \/ ProducerSend
    \/ ClientRecv
    \/ ClientDisconnect
    \/ \E ok \in BOOLEAN : DirectPull(ok)
    \/ DirectEnd

SpecStream == InitStream /\ [][NextStream]_vars

\* The same under the scheduling of the runtime: a producer task that can
\* run is run.  The timer of the sleep fires, and a send that can complete
\* or fail does so.  When the upstream stream yields its next item, and when
\* the client pulls or leaves, is up to the backend and the client.
SpecStreamFair ==
    InitStream /\ [][NextStream]_vars /\ WF_vars(ProducerSleep) /\ WF_vars(ProducerSend)

\* The stop list: lines 342-364 applied to a prompt and a client stop list.
InitStop ==
    /\ OrchIdle
    /\ StreamIdle
    /\ arg \in { Some(i) : i \in StopInputs }
    /\ ret = None

NextStop == ComputeStop

SpecStop == InitStop /\ [][NextStop]_vars

\* The prompt assembler: merge_messages applied to a message list, a merged
\* system text and a configuration.
InitMerge ==
    /\ OrchIdle
    /\ StreamIdle
    /\ arg \in { Some(i) : i \in MergeInputs }
    /\ ret = None

NextMerge == CallMergeMessages

SpecMerge == InitMerge /\ [][NextMerge]_vars

\* The padding: load_padtxt on a pad file, then generate_padding on the
\* corpus it left.  The running thread takes its next step.
InitPad ==
    /\ OrchIdle
    /\ StreamIdle
    /\ arg \in { Some(f) : f \in PadFiles }
    /\ ret = None

NextPad ==
    \/ LoadPadtxt
    \/ PadAssert
    \/ \E slice_len \in SliceLens, slice_start \in AllSliceStarts :
          PadSlice(slice_len, slice_start)

SpecPad == InitPad /\ [][NextPad]_vars /\ WF_vars(NextPad)

\* The credential: a Cookie made from a raw string or by default, cleared or
\* not, then serialized and read back.
InitCookie ==
    /\ OrchIdle
    /\ StreamIdle
    /\ arg \in { Some(raw) : raw \in RawInputs(MaxParts) }
    /\ ret = None

NextCookie ==
    \/ CookieParse
    \/ CookieMakeDefault
    \/ CookieClear
    \/ CookieSerialize
    \/ CookieDeserialize

SpecCookie == InitCookie /\ [][NextCookie]_vars

\* =================================================================== claims
\* The multiset of the non-system messages of a list: each message with the
\* number of times it occurs.
NonSystemBag(s) ==
    LET ns == NonSystem(s)
    IN  [m \in Elems(ns) |-> Cardinality({ i \in 1..Len(ns) : ns[i] = m })]

\* No call is between its entry and its return.
Quiescent == \A r \in Reqs : req[r].pc \in {"idle", "done"}

\* The create call of r was answered with success.
CreateSucceeded(r) ==
    \/ req[r].pc = "completion"
    \/ req[r].pc = "done" /\ req[r].result \in {"Stream", "CompletionError", "panic"}

\* The step just taken is r's entry into try_completion, and r passed every
\* early return.
Admitted(r) ==
    /\ req[r].pc \in {"idle", "done"}
    /\ req'[r].pc \in {"delete_chat", "create"}

\* C1: whenever no call is in flight, a stored conversation identifier names
\* a conversation that exists on the backend.
C1_ConvUuidNamesLiveConversation ==
    Quiescent /\ IsSome(conv_uuid) => Unwrap(conv_uuid) \in backend

\* C2: a call that issued the delete of the old conversation and has
\* returned has always gone on to issue the create call, also when the
\* delete failed.
C2_FailedDeleteStillCreates ==
    \A r \in Reqs :
        req[r].pc = "done" /\ IsSome(req[r].del) => IsSome(req[r].create)

\* C3: the create call and the completion call of every call carry the
\* identifier that this call generated.
C3_CallsUseOwnIdentifier ==
    \A r \in Reqs :
        /\ IsSome(req[r].create) => req[r].create = req[r].gen
        /\ IsSome(req[r].compl) => req[r].compl = req[r].gen

C5_DeliveredIsPrefix ==
    /\ delivered = Iota(Len(delivered))
    /\ Len(delivered) <= sent_up
    /\ rx_open => delivered \o chan = Iota(Len(delivered) + Len(chan))
    /\ rx_open => Len(delivered) + Len(chan) <= sent_up

C5_Witness ==
    path = "example" /\ rx_open /\ Len(delivered) >= 3 /\ Len(chan) >= 2

\* C6: the channel never holds more than its capacity; with a full channel
\* and a connected client the send cannot complete, the producer keeps the
\* one chunk it holds, and every item taken from upstream is delivered,
\* buffered in the channel or that one chunk.
C6_BoundedChannel ==
    /\ Len(chan) <= ChannelCapacity
    /\ (path = "example" /\ rx_open /\ ppc = "send" /\ Unwrap(hand).ok
            /\ Len(chan) = ChannelCapacity)
         => ~ENABLED ProducerSend
    /\ (path = "example" /\ rx_open)
         => sent_up - Len(delivered) - Len(chan)
              = (IF IsSome(hand) \/ ppc = "panicked" THEN 1 ELSE 0)

C6_Witness ==
    /\ path = "example" /\ rx_open /\ ppc = "send" /\ Unwrap(hand).ok
    /\ Len(chan) = ChannelCapacity

\* C7: on try_completion's path, too, once the client has pulled a chunk the
\* next upstream item can be taken by a producer task, whether or not the
\* client pulls again, as long as the stream is not over.
C7_PrimaryPathReadsAhead ==
    (path = "direct" /\ rx_open /\ ppc # "ended" /\ sent_up < UpstreamLen
        /\ Len(delivered) >= 1)
        => ENABLED (\E ok \in BOOLEAN : ProducerRead(ok))

\* C8: every call whose create call succeeded carries the strategy Renew,
\* whatever the decision was; and the first call on a fresh AppState, once
\* its create call has succeeded, has generated one identifier, stored it,
\* created that conversation and issued no delete.
C8_AlwaysRenew ==
    \A r \in Reqs :
        CreateSucceeded(r) =>
            /\ req[r].type = Some("Renew")
            /\ started = 1 =>
                 /\ req[r].del = None
                 /\ uuids = 1
                 /\ req[r].gen = Some(1)
                 /\ conv_uuid = Some(1)
                 /\ backend = {1}

C8_Witness ==
    \E r \in Reqs :
        /\ req[r].result = "Stream"
        /\ ~Unwrap(req[r].dec).should_renew
        /\ req[r].type = Some("Renew")

\* C9: same_prompts is true exactly when the current and the previous
\* request have the same multiset of non-system messages, and then
\* should_renew is true.
C9_SamePromptsIsMultisetEquality ==
    [][ \A r \in Reqs :
          Admitted(r) =>
            LET d == Unwrap(req'[r].dec)
            IN  /\ d.same_prompts
                     <=> (NonSystemBag(req'[r].p.messages) = NonSystemBag(prev_messages))
                /\ d.same_prompts => d.should_renew ]_vars

C9_Witness ==
    \E r \in Reqs :
        /\ IsSome(req[r].dec)
        /\ Unwrap(req[r].dec).same_prompts
        /\ Unwrap(req[r].dec).should_renew
        /\ Len(NonSystem(prev_messages)) = 2
        /\ NonSystem(req[r].p.messages) # NonSystem(prev_messages)
        /\ IsSome(req[r].del)

\* C10: a call that passed every early return leaves prev_messages equal to
\* its own message list when the two multisets of non-system messages
\* differ and leaves it as it was when they are equal; no other step, in
\* particular no rejected call and no probe, changes prev_messages.
C10_PrevMessagesFrame ==
    [][ /\ \A r \in Reqs :
             Admitted(r) =>
               prev_messages' =
                 IF NonSystemBag(req'[r].p.messages) # NonSystemBag(prev_messages)
                 THEN req'[r].p.messages
                 ELSE prev_messages
        /\ (\A r \in Reqs : ~Admitted(r)) => prev_messages' = prev_messages ]_vars

C10_Witness ==
    \E r \in Reqs :
        /\ IsSome(req[r].dec)
        /\ Unwrap(req[r].dec).same_prompts
        /\ prev_messages # <<>>
        /\ req[r].p.messages # prev_messages

\* ---------------------------------------------------------------- C11, C12
\* The request is the title probe: not streaming, one message, the probe's.
IsTitleProbe(p) ==
    ~p.stream /\ Len(p.messages) = 1 /\ p.messages[1] = TEST_MESSAGE

\* The request is the benchmark probe: not streaming, and its first turn
\* starts with the benchmarking prefix.
IsBenchProbe(p) ==
    ~p.stream /\ p.messages # <<>> /\ p.messages[1].content = BenchContent

\* The model is neither in the model list nor contains "claude-".
UnknownModel(m) == m \notin model_list /\ ~ContainsMarker(m)

\* The call in slot r has issued no backend call: no cookie rotation, no
\* delete, no create (no identifier generated), no completion.
NoBackendCall(r) ==
    /\ ~req[r].rotated
    /\ req[r].del = None
    /\ req[r].gen = None
    /\ req[r].create = None
    /\ req[r].compl = None

Rejections == {"NoValidKey", "WrongCompletionFormat", "InvalidModel"}

\* C11: the rejections have a fixed precedence: NoValidKey when the
\* organization is empty; else WrongCompletionFormat when there is no turn;
\* else the canned answer of a probe; else InvalidModel when the model is
\* unknown.  Each of these outcomes ends the call before any backend call
\* and leaves conv_uuid, prev_messages and conv_depth (and the backend) as
\* they were.
C11_RejectionPrecedence ==
    [][\A p \in EntryPayloads, e \in EntryEnvs :
         Begin(1, p, e) =>
           LET out   == req'[1].result
               probe == IsTitleProbe(p) \/ IsBenchProbe(p)
           IN  /\ e.org_empty => out = "NoValidKey"
               /\ (~e.org_empty /\ p.messages = <<>>) => out = "WrongCompletionFormat"
               /\ (~e.org_empty /\ p.messages # <<>> /\ probe)
                     => out \in {"Title", "Neutral"}
               /\ (~e.org_empty /\ p.messages # <<>> /\ ~probe /\ UnknownModel(p.model))
                     => out = "InvalidModel"
               /\ (~e.org_empty /\ p.messages # <<>> /\ ~probe /\ ~UnknownModel(p.model))
                     => out = ""
               /\ out \in Rejections \cup {"Title", "Neutral"}
                     => /\ req'[1].pc = "done"
                        /\ NoBackendCall(1)'
                        /\ conv_uuid' = conv_uuid
                        /\ prev_messages' = prev_messages
                        /\ conv_depth' = conv_depth
                        /\ backend' = backend
      ]_vars

\* A request with an unknown model (and nothing that is checked earlier) was
\* rejected while a conversation of depth 1 and a previous request existed.
C11_Witness ==
    /\ req[1].result = "InvalidModel"
    /\ req[1].p.messages # <<>>
    /\ conv_uuid = Some(0)
    /\ conv_depth = 1
    /\ prev_messages # <<>>
    /\ backend = {0}

\* C12: a probe request (organization resolvable) gets the canned body of its
\* probe and causes no backend call: no cookie rotation, no delete, no
\* create, no completion call, and the backend is left as it was.
C12_ProbeMakesNoBackendCall ==
    [][\A p \in EntryPayloads, e \in EntryEnvs :
         (Begin(1, p, e) /\ ~e.org_empty /\ (IsTitleProbe(p) \/ IsBenchProbe(p)))
           => /\ req'[1].pc = "done"
              /\ req'[1].result = IF IsTitleProbe(p) THEN "Title" ELSE "Neutral"
              /\ NoBackendCall(1)'
              /\ backend' = backend
              /\ conv_uuid' = conv_uuid
      ]_vars

\* The benchmark probe, followed by another turn and asking for an unknown
\* model, was answered while a conversation existed.
C12_Witness ==
    /\ req[1].result = "Neutral"
    /\ Len(req[1].p.messages) = 2
    /\ req[1].p.model = "bogus"
    /\ conv_uuid = Some(0)
    /\ backend = {0}

\* --------------------------------------------------------------------- C13
\* C13: no call ends in a panic: with settings.xml_plot off the call returns
\* an error value (UnsupportedMode) to the handler.
C13_NeverPanics == \A r \in Reqs : req[r].result # "panic"

\* ---------------------------------------------------------------- C14, C15
\* The list of the second occurrence of the marker k in the prompt.
SecondOccurrence(prompt, k) == FindIter(prompt, k)[2].list

\* The marker k occurs at least twice in the prompt.
OccursTwice(prompt, k) == Len(FindIter(prompt, k)) >= 2

\* C14: when the prompt holds a stopSet (a stopRevoke) marker twice, the
\* array of the second occurrence is the stop-set (the stop-revoke) list
\* that is applied.
C14_SecondOccurrenceApplied ==
    IsSome(ret) =>
      LET i == Unwrap(arg)
          o == Unwrap(ret)
      IN  /\ OccursTwice(i.prompt, "stopSet")
                => o.stop_set = SecondOccurrence(i.prompt, "stopSet")
          /\ OccursTwice(i.prompt, "stopRevoke")
                => o.stop_revoke = SecondOccurrence(i.prompt, "stopRevoke")

\* The entries of the marker k that the prompt asks for, for a prompt in
\* which the marker is absent or occurs twice or more.
Requested(prompt, k) ==
    IF OccursTwice(prompt, k) THEN SecondOccurrence(prompt, k) ELSE <<>>

\* An entry is blank, or equals a revoked entry up to ASCII case, once trimmed.
Removed(s, revoked) ==
    \/ Trim(s) = <<>>
    \/ \E j \in 1..Len(revoked) : AsciiLower(revoked[j]) = AsciiLower(Trim(s))

\* C15: the final stop list is the stop-set entries, then the client's stop
\* entries, then the two delimiters, without the entries that are blank or
\* revoked, the others in order.
C15_FinalStopList ==
    (/\ IsSome(ret)
     /\ Len(FindIter(Unwrap(arg).prompt, "stopSet")) # 1
     /\ Len(FindIter(Unwrap(arg).prompt, "stopRevoke")) # 1)
    =>
      LET i       == Unwrap(arg)
          set     == Requested(i.prompt, "stopSet")
          revoked == Requested(i.prompt, "stopRevoke")
          client  == IF IsSome(i.stop) THEN Unwrap(i.stop) ELSE <<>>
          all     == set \o client
                       \o << <<"\n", "\n", "Human:">>, <<"\n", "\n", "Assistant:">> >>
      IN  Unwrap(ret).stop = SelectSeq(all, LAMBDA s : ~Removed(s, revoked))

\* ----------------------------------------------------------- C16 .. C20
\* The call of merge_messages is over: its input and what it computed.
MergeDone == IsSome(ret) /\ "msgs" \in DOMAIN Unwrap(arg)
MergeIn == Unwrap(arg)
MergeOut == Unwrap(ret)

\* The flattened text of a message is empty.
EmptyFlattened(m) == FlattenMessage(m).turn = None

\* C16: merge_messages returns None when the list is empty, and whenever
\* every message has an empty flattened text, whatever the system text is.
C16_NoneWithoutTurns ==
    MergeDone =>
      ((\A k \in 1..Len(MergeIn.msgs) : EmptyFlattened(MergeIn.msgs[k])) => MergeOut.merged = None)

\* The turns of the messages whose flattened text is not empty, in the order
\* of the messages (an Option is a sequence of no or one element).
NonEmptyTurns(msgs) == Concat([k \in 1..Len(msgs) |-> FlattenMessage(msgs[k]).turn])

\* C17: a message with an empty flattened text is dropped alone: the turns
\* that are rendered are those of all the messages with a non-empty
\* flattened text, before or after an empty one, in their order; no chunk
\* is empty.
C17_EmptyDroppedAlone ==
    (MergeDone /\ MergeIn.msgs # <<>>) =>
      /\ MergeOut.turns = NonEmptyTurns(MergeIn.msgs)
      /\ \A j \in 1..Len(MergeOut.chunks) : MergeOut.chunks[j].text # <<>>

\* The trimmed texts of all the text blocks, and the sources of all the
\* image blocks, of a block list.
AllTexts(blocks) ==
    LET t == SelectSeq(blocks, LAMBDA b : b.block = "text")
    IN  [k \in 1..Len(t) |-> Trim(t[k].text)]

AllImages(blocks) ==
    LET im == SelectSeq(blocks, LAMBDA b : b.block = "image")
    IN  [k \in 1..Len(im) |-> im[k].source]

\* C18: for a message with block content the flattened text is the
\* new-line join of all its text blocks and all its image sources go to the
\* image list, wherever they stand; Merged.images holds every image source
\* of every message.
C18_AllBlocksFlattened ==
    MergeDone =>
      /\ \A k \in 1..Len(MergeIn.msgs) :
            MergeIn.msgs[k].content.kind = "blocks" =>
              LET f == FlattenMessage(MergeIn.msgs[k])
                  b == MergeIn.msgs[k].content.blocks
              IN  /\ (IF IsSome(f.turn) THEN Unwrap(f.turn).text ELSE <<>>)
                        = Join(AllTexts(b), <<"\n">>)
                  /\ f.imgs = AllImages(b)
      /\ IsSome(MergeOut.merged) =>
            Unwrap(MergeOut.merged).images =
              Concat([k \in 1..Len(MergeIn.msgs) |-> AllImages(MergeIn.msgs[k].content.blocks)])

\* The places where a maximal run of turns of one role starts, and the place
\* where the run that starts at s ends.
RunStarts(turns) ==
    { i \in 1..Len(turns) : i = 1 \/ turns[i].role # turns[i - 1].role }

RunEnd(turns, s) ==
    CHOOSE e \in s..Len(turns) :
        /\ \A x \in s..e : turns[x].role = turns[s].role
        /\ (e = Len(turns) \/ turns[e + 1].role # turns[s].role)

\* The chunk of each maximal run: its role and its texts joined by one new
\* line.
RunChunks(turns) ==
    LET starts == RunStarts(turns)
        nth(j) == CHOOSE i \in starts : Cardinality({ x \in starts : x < i }) = j - 1
        chunk(s) == [ role |-> turns[s].role,
                      text |-> Join([x \in 1..(RunEnd(turns, s) - s + 1) |->
                                        turns[s + x - 1].text], <<"\n">>) ]
    IN  [j \in 1..Cardinality(starts) |-> chunk(nth(j))]

\* The label of a role and the delimiter that precedes it.
Label(role, c) ==
    IF role = "user"
    THEN (IF c.custom_h = None THEN "Human:" ELSE Unwrap(c.custom_h) \o ":")
    ELSE (IF c.custom_a = None THEN "Assistant:" ELSE Unwrap(c.custom_a) \o ":")

Delimiter(c) == IF c.user_real_roles THEN <<"\n", "\n", "\\x08">> ELSE <<"\n", "\n">>

\* The chunks l, each behind the delimiter and the label of its role.
Labelled(l, c) ==
    Concat([j \in 1..Len(l) |-> Delimiter(c) \o <<Label(l[j].role, c), " ">> \o l[j].text])

\* The paste of a system text and chunks: the system text, if it is not
\* empty, or else the first chunk, bare; then the other chunks, labelled.
Rendered(system, l, c) ==
    IF system # <<>> THEN system \o Labelled(l, c)
    ELSE l[1].text \o Labelled(Tail(l), c)

\* C19: every maximal run of consecutive flattened turns of one role is one
\* chunk of the paste, its texts joined by one new line; no two adjacent
\* chunks have the same role.
C19_RunsBecomeChunks ==
    MergeDone =>
      /\ MergeOut.chunks = RunChunks(MergeOut.turns)
      /\ \A j \in 1..(Len(MergeOut.chunks) - 1) : MergeOut.chunks[j].role # MergeOut.chunks[j + 1].role
      /\ IsSome(MergeOut.merged) =>
            Unwrap(MergeOut.merged).paste = Rendered(Trim(MergeIn.system), RunChunks(MergeOut.turns), MergeIn.config)

\* Three turns in two chunks were rendered.
C19_Witness ==
    /\ MergeDone
    /\ IsSome(MergeOut.merged)
    /\ Len(MergeOut.turns) = 3
    /\ Len(MergeOut.chunks) = 2

\* C20: the first thing written to the paste, the system text when it is
\* not empty and else the first chunk, has no role prefix; every chunk
\* written after it stands behind the delimiter and the label of its role.
C20_FirstWriteBare ==
    (MergeDone /\ IsSome(MergeOut.merged)) =>
      LET paste  == Unwrap(MergeOut.merged).paste
          system == Trim(MergeIn.system)
          first  == IF system # <<>> THEN system ELSE MergeOut.chunks[1].text
          later  == IF system # <<>> THEN MergeOut.chunks ELSE Tail(MergeOut.chunks)
      IN  /\ Len(paste) >= Len(first)
          /\ SubSeq(paste, 1, Len(first)) = first
          /\ SubSeq(paste, Len(first) + 1, Len(paste)) = Labelled(later, MergeIn.config)

\* Without a system text, two chunks were written with the real-role
\* delimiter and the custom labels.
C20_Witness ==
    /\ MergeDone
    /\ IsSome(MergeOut.merged)
    /\ Trim(MergeIn.system) = <<>>
    /\ Len(MergeOut.chunks) >= 2
    /\ MergeIn.config.user_real_roles

\* ---------------------------------------------------------------- C21, C22
\* generate_padding runs or has run on a corpus that passed its assertion.
Padding == IsSome(ret) /\ "pushed" \in DOMAIN Unwrap(ret) /\ Unwrap(ret).pc \in {"loop", "done"}

\* generate_padding has returned.
PadDone == Padding /\ Unwrap(ret).pc = "done"

\* C21: on a corpus of at least 4096 tokens generate_padding terminates;
\* every slice it takes has a length in [8,64) and lies within the corpus;
\* on exit more than 4000 and at most 4063 tokens were pushed.
C21_PaddingTerminates ==
    /\ [](Padding =>
            LET l == Unwrap(ret)
            IN  /\ l.pushed > 0 =>
                      /\ l.slice_len >= 8 /\ l.slice_len < 64
                      /\ l.slice_start >= 0
                      /\ l.slice_start + l.slice_len <= l.pad_tokens
                /\ l.pc = "done" => (l.pushed > 4000 /\ l.pushed <= 4063))
    /\ [](Padding => <>PadDone)

\* The loop was left with 4063 tokens pushed, its last slice being the last
\* 63 tokens but one of the corpus.
C21_Witness ==
    /\ Padding
    /\ Unwrap(ret).pc = "done"
    /\ Unwrap(ret).pushed = 4063
    /\ Unwrap(ret).slice_start + Unwrap(ret).slice_len = Unwrap(ret).pad_tokens - 1

\* load_padtxt has returned (it did not panic).
Loaded == IsSome(ret) /\ "pad_tokens" \in DOMAIN Unwrap(ret) /\ Unwrap(ret).pc # "load_panic"

CookieMade == IsSome(ret) /\ "cookie" \in DOMAIN Unwrap(ret)
TheCookie == Unwrap(ret).cookie

\* The whole string is "sk-ant-sid01-", 86 pattern characters, "-", 6
\* pattern characters and "AA", and nothing else.
WholeStringIsToken(s) ==
    /\ Len(s) = 13 + 86 + 1 + 6 + 2
    /\ SubSeq(s, 1, 13) = SkPrefix
    /\ \A j \in 14..99 : IsPatternChar(s[j])
    /\ s[100] = "-"
    /\ \A j \in 101..106 : IsPatternChar(s[j])
    /\ s[107] = "A" /\ s[108] = "A"

\* C23: validate is true exactly when the whole normalized string is a
\* well-formed token; a string with characters before or after one does not
\* validate.
C23_ValidateIsExact ==
    CookieMade => (Validate(TheCookie) <=> WholeStringIsToken(TheCookie.inner))

\* The characters a normalized cookie may hold.
IsCookieChar(c) == IsAsciiAlphanumeric(c) \/ c \in {"=", "_", "-"}

\* The inner string holds only cookie characters and does not begin with
\* "sessionKey=".
Normalized(c) ==
    /\ \A i \in 1..Len(c.inner) : IsCookieChar(c.inner[i])
    /\ ~StartsWith(c.inner, SessionKey)

\* The part of s behind its first "@".
AfterFirstAt(s) ==
    LET k == CHOOSE i \in 1..Len(s) : s[i] = "@" /\ \A j \in 1..(i - 1) : s[j] # "@"
    IN  SubSeq(s, k + 1, Len(s))

HasAt(s) == \E i \in 1..Len(s) : s[i] = "@"

\* C24: however a Cookie came to be (from, deserialize, default, clear), it
\* is normalized; the cookie made from an input with an "@" is the one made
\* of the characters behind the first "@".
C24_CookieIsNormalized ==
    CookieMade =>
      /\ Normalized(TheCookie)
      /\ IsSome(Unwrap(ret).again) => Normalized(Unwrap(Unwrap(ret).again))
      /\ (Unwrap(ret).how = "from" /\ HasAt(Unwrap(arg)))
            => TheCookie.inner =
                 TrimStartMatches(FilterChars(AfterFirstAt(Unwrap(arg))), SessionKey)

\* A cookie was made from an input with an "@" behind which the marker
\* "sessionKey=" stands before other characters.
C24_Witness ==
    /\ CookieMade
    /\ Unwrap(ret).how = "from"
    /\ HasAt(Unwrap(arg))
    /\ StartsWith(AfterFirstAt(Unwrap(arg)), SessionKey)
    /\ TheCookie.inner # <<>>

\* C25: the Cookie read back from the serialized form of a Cookie equals it.
C25_RoundTrip ==
    (CookieMade /\ IsSome(Unwrap(ret).again)) => Unwrap(Unwrap(ret).again) = TheCookie

\* A well-formed token, made from an input that carries the marker, was
\* serialized and read back.
C25_Witness ==
    /\ CookieMade
    /\ IsSome(Unwrap(ret).again)
    /\ Unwrap(ret).how = "from"
    /\ StartsWith(Unwrap(arg), SessionKey)
    /\ Validate(TheCookie)


\* ------------------------------------------------------------------ C26
\* C26: a call whose decision was not to renew keeps the stored conversation
\* identifier: it issues no delete call, generates no new identifier and
\* issues no create call.
C26_RenewOnlyWhenDecided ==
    \A r \in Reqs :
        (IsSome(req[r].dec) /\ ~Unwrap(req[r].dec).should_renew) =>
            /\ req[r].del = None
            /\ req[r].gen = None
            /\ req[r].create = None


\* ------------------------------------------------------------------ C27
\* The producer task of stream_example is over.
ProducerOver == ppc \in {"cancelled", "ended", "panicked"}

\* C27: once the client has disconnected, the producer task eventually
\* terminates, however long the upstream stream stays open.
C27_ProducerEndsAfterDisconnect ==
    (path = "example" /\ ~rx_open) ~> ProducerOver


\* ------------------------------------------------------------------ C28
\* The first call has failed at a backend call.
FirstFailed ==
    req[1].pc = "done" /\ req[1].result \in {"DeleteError", "CreateError"}

\* The second call has succeeded.
SecondSucceeded == req[2].pc = "done" /\ req[2].result = "Stream"

AtBackendCall(r) == req[r].pc \in {"delete_chat", "create", "completion"}

\* C30: a call suspended at a backend call holds no lock on conv_uuid, and
\* a call that is about to write conv_uuid is never kept waiting by a call
\* that waits for the backend.
C30_NoLockAcrossBackendCall ==
    \A r \in Reqs :
        /\ AtBackendCall(r) => ~HoldsReadLock(r)
        /\ req[r].pc = "assign" =>
              \A q \in Reqs \ {r} : ~(AtBackendCall(q) /\ HoldsReadLock(q))

====
